---- MODULE Spec2Model ----
(***************************************************************************)
(* gack: a stack of git branches ("patches") kept in .git/gack/stack.      *)
(* Model of GackRepo (src/gack/repo.py): the stack store, the navigator    *)
(* operations push / pop / untrack, arc_land, the commit walker, the       *)
(* revision resolver and the dependency annotator.                         *)
(*                                                                         *)
(* Specifications: Spec (the navigator), SpecDeinit (the navigator beside  *)
(* `gack deinit`), SpecConc (two invocations side by side), SpecWalk (the *)
(* walker), SpecReview (resolver and annotator) and SpecStore (the stack   *)
(* file as text).                                                          *)
(*                                                                         *)
(* A commit is modelled by its first-parent history: the sequence of the   *)
(* change labels from the history's first commit up to the commit itself.  *)
(* Two commits are the same commit iff the sequences are equal (as a git   *)
(* object id is a function of the content and the parent), the first       *)
(* parent of a commit is the sequence without its last label, and a commit *)
(* of length 1 has no parent.                                              *)
(***************************************************************************)
EXTENDS Integers, Sequences, FiniteSets, TLC

VARIABLES
    is_initialized, \* whether .git/gack/stack exists
    stack_file,     \* contents of .git/gack/stack: one patch name per line
    _stack_cache,   \* GackRepo._stack_cache of the last invocation, at its end
    heads,          \* the repository's local branches: name |-> tip commit
    messages,       \* the commit messages: change label |-> message
    active_branch,  \* the branch checked out in the working tree
    last,           \* the last invocation: operation, arguments, state before, outcome
    invocations,    \* number of invocations so far
    walk,           \* the last run of the commit walker: arguments and commits yielded
    review,         \* the run of the revision resolver since the last invocation
    processes       \* the invocations that run side by side: what each has loaded

vars == <<is_initialized, stack_file, _stack_cache, heads, messages, active_branch,
          last, invocations, walk, review, processes>>

(***************************************************************************)
(* Bounds of the model.                                                    *)
(***************************************************************************)
MaxOps == 4        \* invocations explored from each initial state
MaxChain == 17     \* longest first-parent chain drawn for the walker
MaxNames == 2      \* longest stack written to the stack file as text
MaxNameLen == 2    \* longest patch name written to the stack file as text

MAX_COMMITS == 15

stack_root == "main"
BranchNames == {"main", "A", "B", "C"}
None == <<>>       \* Python's None where a commit is expected

(***************************************************************************)
(* Commits.                                                                *)
(***************************************************************************)
\* commit.parents: the parents of a commit, first parent first
parents(commit) ==
    IF Len(commit) <= 1 THEN <<>> ELSE <<SubSeq(commit, 1, Len(commit) - 1)>>

\* whether commit a is on the first-parent chain that ends at commit b
OnChain(a, b) == Len(a) <= Len(b) /\ SubSeq(b, 1, Len(a)) = a

\* the change a branch carries when it exists before it is pushed
OwnChange(b) == CASE b = "A" -> 1 [] b = "B" -> 2 [] b = "C" -> 3 [] OTHER -> 0

(***************************************************************************)
(* Stack store.  Indices are 0-based as in the source; -1 is "not tracked".*)
(***************************************************************************)
\* The stack file as text: a sequence of characters.
LF == "\n"
Whitespace == {" ", LF}

\* the loop of _update_stack_file: '{}\n'.format(patch) for each patch
RECURSIVE write_lines(_)
write_lines(stack) ==
    IF stack = <<>> THEN <<>>
    ELSE Head(stack) \o <<LF>> \o write_lines(Tail(stack))

\* f.readline(): the text up to and including the first line break, all of
\* it when it holds none
readline(text) ==
    IF \E i \in 1..Len(text) : text[i] = LF
    THEN SubSeq(text, 1, CHOOSE i \in 1..Len(text) :
                             text[i] = LF /\ \A j \in 1..(i - 1) : text[j] # LF)
    ELSE text

RECURSIVE lstrip(_)
lstrip(s) == IF s # <<>> /\ Head(s) \in Whitespace THEN lstrip(Tail(s)) ELSE s

RECURSIVE rstrip(_)
rstrip(s) ==
    IF s # <<>> /\ s[Len(s)] \in Whitespace THEN rstrip(SubSeq(s, 1, Len(s) - 1))
    ELSE s

\* strip that leaves the end of the line as it is
strip_left(s) == lstrip(s)

\* str.strip(): without the white space at either end
strip(s) == rstrip(lstrip(s))

\* the loop of GackRepo._stack: the lines of the file, each stripped
RECURSIVE read_lines(_)
read_lines(text) ==
    LET line == readline(text)
    IN  IF line = <<>> THEN <<>>
        ELSE <<strip(line)>> \o read_lines(SubSeq(text, Len(line) + 1, Len(text)))

\* GackRepo._stack: the cache is filled from the stack file on first use, one
\* name per line.  Outside the specification of the stack file as text the
\* file is kept as the sequence of its lines: the names there are branch
\* names, which hold no white space, and read_lines(write_lines(stack)) is
\* stack for such names (C16).
_stack == stack_file

\* self._stack[i]
At(stack, i) == stack[i + 1]

\* list.insert that puts x on top of the stack
Insert_on_top(stack, i, x) == Append(stack, x)

\* list.insert(i, x)
Insert(stack, i, x) ==
    SubSeq(stack, 1, i) \o <<x>> \o SubSeq(stack, i + 1, Len(stack))

\* list.pop(i)
Remove(stack, i) ==
    SubSeq(stack, 1, i) \o SubSeq(stack, i + 2, Len(stack))

\* the index of the first occurrence of patch_name, or -1
_find_patch_index(stack, patch_name) ==
    IF \E i \in 1..Len(stack) : stack[i] = patch_name
    THEN (CHOOSE i \in 1..Len(stack) :
              /\ stack[i] = patch_name
              /\ \A j \in 1..(i - 1) : stack[j] # patch_name) - 1
    ELSE -1

(***************************************************************************)
(* One invocation.  A process record p carries the state an invocation     *)
(* works on: its cached stack, the stack file and whether it exists, the   *)
(* repository and the calls made so far.  outcome is "ok" while the        *)
(* handler runs on, "printed" after a message for a failed precondition,   *)
(* "raised" after an exception and "exited" after sys.exit; a step after   *)
(* anything but "ok" does nothing.  A handler is given the record of the   *)
(* process that has loaded the stack, self.                                *)
(***************************************************************************)
Begin ==
    [stack |-> _stack, file |-> stack_file, exists |-> is_initialized,
     heads |-> heads, messages |-> messages, active |-> active_branch,
     outcome |-> "ok", calls |-> <<>>]

Printed(p) == [p EXCEPT !.outcome = "printed"]

\* current_patch: the name of the active branch
current_patch(p) == p.active

_find_current_patch_index(p) == _find_patch_index(p.stack, current_patch(p))

\* _update_stack_file that leaves the stack file as it is
_update_stack_file_skipped(p) == p

\* the stack file is rewritten from the cache, one name per line; with no
\* stack file an exception is raised
_update_stack_file(p) ==
    IF p.outcome # "ok" THEN p
    ELSE IF ~p.exists THEN [p EXCEPT !.outcome = "raised"]
    ELSE [p EXCEPT !.file = p.stack, !.calls = Append(@, <<"write", "">>)]

\* _find_branch returns None for a name that is no local branch, and
\* None.checkout() raises
_check_out(p, branch) ==
    IF p.outcome # "ok" THEN p
    ELSE IF branch \notin DOMAIN p.heads THEN [p EXCEPT !.outcome = "raised"]
    ELSE [p EXCEPT !.active = branch,
                   !.calls = Append(@, <<"checkout", branch>>)]

\* length of the longest common prefix of two histories
RECURSIVE CommonPrefix(_, _)
CommonPrefix(a, b) ==
    IF a = <<>> \/ b = <<>> \/ Head(a) # Head(b) THEN 0
    ELSE 1 + CommonPrefix(Tail(a), Tail(b))

\* git rebase --fork-point: the commits of `commit` after the point where it
\* left the history of `onto`, replayed on `onto`; a change that `onto`
\* already holds is dropped
Rebased(commit, onto) ==
    LET Missing(change) == \A i \in 1..Len(onto) : onto[i] # change
    IN  onto \o SelectSeq(SubSeq(commit, CommonPrefix(commit, onto) + 1, Len(commit)),
                          Missing)

\* the active branch is rebased onto `branch`
_rebase(p, branch) ==
    IF p.outcome # "ok" THEN p
    ELSE [p EXCEPT !.heads[p.active] = Rebased(p.heads[p.active], p.heads[branch]),
                   !.calls = Append(@, <<"rebase", branch>>)]

\* Repo.create_head(branch_name, commit): refuses a branch that exists and
\* points elsewhere; one that already points at the commit is accepted
create_head(p, branch_name, commit) ==
    IF p.outcome # "ok" THEN p
    ELSE IF branch_name \in DOMAIN p.heads /\ p.heads[branch_name] # p.heads[commit]
    THEN [p EXCEPT !.outcome = "raised"]
    ELSE [p EXCEPT !.heads = [b \in DOMAIN p.heads \cup {branch_name} |->
                                 IF b = branch_name THEN p.heads[commit]
                                 ELSE p.heads[b]],
                   !.calls = Append(@, <<"create_head", branch_name>>)]

\* Repo.delete_head(branch, force=True): git refuses a branch that does not
\* exist and the branch that is checked out
delete_head(p, branch) ==
    IF p.outcome # "ok" THEN p
    ELSE IF branch \notin DOMAIN p.heads \/ branch = p.active
    THEN [p EXCEPT !.outcome = "raised"]
    ELSE [p EXCEPT !.heads = [b \in DOMAIN p.heads \ {branch} |-> p.heads[b]],
                   !.calls = Append(@, <<"delete_head", branch>>)]

(***************************************************************************)
(* The navigator: what each handler leaves behind, as a process record.    *)
(***************************************************************************)
\* untrack without the test for a pushed branch
untrack_unguarded(self, branch, delete) ==
    LET p == self
        patch_index == _find_patch_index(p.stack, branch)
    IN  IF patch_index < 0 THEN Printed(p)
        ELSE LET q == _update_stack_file(
                          [p EXCEPT !.stack = Remove(p.stack, patch_index)])
             IN  IF delete THEN delete_head(q, branch) ELSE q

untrack(self, branch, delete) ==
    LET p == self
        patch_index == _find_patch_index(p.stack, branch)
        current_patch_index == _find_current_patch_index(p)
    IN  IF patch_index < 0 THEN Printed(p)
        ELSE IF current_patch_index > patch_index THEN Printed(p)
        ELSE LET q == _update_stack_file(
                          [p EXCEPT !.stack = Remove(p.stack, patch_index)])
             IN  IF delete THEN delete_head(q, branch) ELSE q

pop(self, all) ==
    LET p == self
        current_patch_index == _find_current_patch_index(p)
    IN  IF current_patch_index < 0 THEN Printed(p)
        ELSE IF current_patch_index = 0 THEN Printed(p)
        ELSE IF all THEN _check_out(p, At(p.stack, 0))
        ELSE _check_out(p, At(p.stack, current_patch_index - 1))

push_one(self, rebase) ==
    LET p == self
        current_patch_index == _find_current_patch_index(p)
    IN  IF current_patch_index < 0 THEN Printed(p)
        ELSE IF current_patch_index = Len(p.stack) - 1 THEN Printed(p)
        ELSE LET base_patch == current_patch(p)
                 patch == At(p.stack, current_patch_index + 1)
                 q == _check_out(p, patch)
             IN  IF rebase THEN _rebase(q, base_patch) ELSE q

push_existing_branch(self, branch_name, rebase) ==
    LET p == self
        current_patch_index == _find_current_patch_index(p)
        next_patch_index == _find_patch_index(p.stack, branch_name)
    IN  IF current_patch_index < 0 THEN Printed(p)
        ELSE IF next_patch_index >= 0 THEN Printed(p)
        ELSE LET base_patch == current_patch(p)
                 q == _check_out(
                          _update_stack_file(
                              [p EXCEPT !.stack = Insert(p.stack,
                                                         current_patch_index + 1,
                                                         branch_name)]),
                          branch_name)
             IN  IF rebase THEN _rebase(q, base_patch) ELSE q

\* next_patch_index is computed by the source and never read
push_new_branch(self, branch_name) ==
    LET p == self
        current_patch_index == _find_current_patch_index(p)
    IN  IF current_patch_index < 0 THEN Printed(p)
        ELSE LET q == create_head(p, branch_name, current_patch(p))
                 r == IF q.outcome # "ok" THEN q
                      ELSE [q EXCEPT !.stack = Insert(q.stack,
                                                      current_patch_index + 1,
                                                      branch_name)]
             IN  _check_out(_update_stack_file(r), branch_name)

(***************************************************************************)
(* arc land.  _shell_out runs the external tool and exits the process with *)
(* the tool's status when that is not zero.  What a land that succeeds     *)
(* does to the repository is the tool's: the patch reaches the root branch *)
(* as one new commit ("squash") or the root branch is moved forward to the *)
(* patch's tip ("ff"), the landed branch is deleted and the root branch is *)
(* checked out.                                                            *)
(***************************************************************************)
LandResults == {"failed", "squash", "ff"}

\* _shell_out that carries on after a failed land
_shell_out_unchecked(p, result) ==
    [p EXCEPT !.calls = Append(@, <<"arc land", "">>)]

_shell_out_arc_land(p, result) ==
    LET called == [p EXCEPT !.calls = Append(@, <<"arc land", "">>)]
        root == At(p.stack, 0)
        landed == p.active
        onto == IF result = "ff" THEN p.heads[landed]
                ELSE Append(p.heads[root], 9)
    IN  IF result = "failed" THEN [called EXCEPT !.outcome = "exited"]
        ELSE IF root \notin DOMAIN p.heads THEN called
        ELSE [called EXCEPT
                 !.heads = [b \in DOMAIN p.heads \ {landed} |->
                               IF b = root THEN onto ELSE p.heads[b]],
                 !.active = root]

\* arc_land that lands any patch above the root
arc_land_any_patch(self, result) ==
    LET p == self
        current_patch_index == _find_current_patch_index(p)
    IN  IF current_patch_index < 1 THEN Printed(p)
        ELSE LET q == _shell_out_arc_land(p, result)
             IN  IF q.outcome # "ok" THEN q
                 ELSE _update_stack_file(
                          [q EXCEPT !.stack = Remove(q.stack, current_patch_index)])

arc_land(self, result) ==
    LET p == self
        current_patch_index == _find_current_patch_index(p)
    IN  IF current_patch_index < 0 THEN Printed(p)
        ELSE IF current_patch_index # 1 THEN Printed(p)
        ELSE LET q == _shell_out_arc_land(p, result)
             IN  IF q.outcome # "ok" THEN q
                 ELSE _update_stack_file(
                          [q EXCEPT !.stack = Remove(q.stack, current_patch_index)])

(***************************************************************************)
(* The commit walker.                                                      *)
(***************************************************************************)
NoPatch == ""      \* None where a patch name is expected

\* Repo.commit(rev): the tip of the branch, and the commit of HEAD for None
commit(rev) == IF rev = NoPatch THEN heads[active_branch] ELSE heads[rev]

\* the loop without the test for the root patch's tip
RECURSIVE CommitsFrom_past_root(_, _, _, _)
CommitsFrom_past_root(current_commit, parent_commit, root_commit, commits_yielded) ==
    IF current_commit # None /\ parent_commit # None
       /\ parent_commit # current_commit
    THEN <<current_commit>> \o
         CommitsFrom_past_root(IF commits_yielded + 1 > MAX_COMMITS
                                  \/ Len(parents(current_commit)) = 0
                               THEN None
                               ELSE parents(current_commit)[1],
                               parent_commit, root_commit, commits_yielded + 1)
    ELSE <<>>

\* the loop of _commits_in_reverse, from current_commit with
\* commits_yielded commits yielded so far: the commits it yields, in order
RECURSIVE CommitsFrom(_, _, _, _)
CommitsFrom(current_commit, parent_commit, root_commit, commits_yielded) ==
    IF current_commit # None /\ parent_commit # None
       /\ root_commit # current_commit
       /\ parent_commit # current_commit
    THEN <<current_commit>> \o
         CommitsFrom(IF commits_yielded + 1 > MAX_COMMITS
                        \/ Len(parents(current_commit)) = 0
                     THEN None
                     ELSE parents(current_commit)[1],
                     parent_commit, root_commit, commits_yielded + 1)
    ELSE <<>>

\* _commits_in_reverse that takes the repository's first commit for the root
\* commit
_commits_in_reverse_to_first_commit(from_patch, parent_patch) ==
    CommitsFrom(commit(from_patch), commit(parent_patch), <<0>>, 0)

_commits_in_reverse(from_patch, parent_patch) ==
    CommitsFrom(commit(from_patch), commit(parent_patch),
                commit(At(_stack, 0)), 0)

(***************************************************************************)
(* Review annotations.  A commit message is the sequence of its parts: a   *)
(* part is text, a blank line, the footer                                  *)
(* 'Differential Revision: <url>/D<id>' or the marker 'Depends on D<id>'.  *)
(* A revision identifier D<id> is the pair <<"D", id>>.  The message of a  *)
(* commit is the message of its last change.                               *)
(***************************************************************************)
Text == [kind |-> "text", id |-> 0]
BlankLine == [kind |-> "blank", id |-> 0]
DifferentialRevision(id) == [kind |-> "revision", id |-> id]
DependsOn(id) == [kind |-> "depends", id |-> id]

\* commit.message
message(c) == messages[c[Len(c)]]

\* re.search: the position of the first part of the kind, 0 for no match
re_search(kind, msg) ==
    IF \E i \in 1..Len(msg) : msg[i].kind = kind
    THEN CHOOSE i \in 1..Len(msg) :
             /\ msg[i].kind = kind
             /\ \A j \in 1..(i - 1) : msg[j].kind # kind
    ELSE 0

\* the resolver that returns the revision of the earliest commit of the
\* walk that carries one
_get_differential_revision_earliest(patch_index) ==
    LET prev_patch == IF patch_index > 0 THEN At(_stack, patch_index - 1) ELSE NoPatch
        yielded == _commits_in_reverse(At(_stack, patch_index), prev_patch)
        matching == {k \in 1..Len(yielded) : re_search("revision", message(yielded[k])) > 0}
    IN  IF matching = {} THEN None
        ELSE LET k == CHOOSE i \in matching : \A j \in matching : i >= j
                 msg == message(yielded[k])
             IN  <<"D", msg[re_search("revision", msg)].id>>

\* the revision of the first commit the walk yields whose message matches
\* DIFF_REVISION_RE, None when the walk ends without a match
_get_differential_revision_in_patch(patch_index) ==
    LET prev_patch == IF patch_index > 0 THEN At(_stack, patch_index - 1) ELSE NoPatch
        yielded == _commits_in_reverse(At(_stack, patch_index), prev_patch)
        matching == {k \in 1..Len(yielded) : re_search("revision", message(yielded[k])) > 0}
    IN  IF matching = {} THEN None
        ELSE LET k == CHOOSE i \in matching : \A j \in matching : i <= j
                 msg == message(yielded[k])
             IN  <<"D", msg[re_search("revision", msg)].id>>

\* the label of a change no commit holds yet
NewChange(p) ==
    1 + CHOOSE l \in DOMAIN p.messages : \A m \in DOMAIN p.messages : l >= m

\* git commit --amend that rewrites the message of the commit where it is
amend_in_place(p, msg) ==
    LET c == p.heads[p.active]
    IN  [p EXCEPT !.messages[c[Len(c)]] = msg,
                  !.calls = Append(@, <<"amend", p.active>>)]

\* git commit --amend -m msg: the tip of the branch checked out is replaced
\* by a new commit on the same parent that carries msg
amend(p, msg) ==
    LET c == p.heads[p.active]
        change == NewChange(p)
    IN  [p EXCEPT !.heads[p.active] = Append(SubSeq(c, 1, Len(c) - 1), change),
                  !.messages = [l \in DOMAIN p.messages \cup {change} |->
                                   IF l = change THEN msg ELSE p.messages[l]],
                  !.calls = Append(@, <<"amend", p.active>>)]

\* the annotator without the search for a marker in the patch's commits
_add_depends_on_unsearched(self) ==
    LET p == self
        current_patch_index == _find_current_patch_index(p)
    IN  IF current_patch_index < 1 THEN p
        ELSE LET parent_diff == _get_differential_revision_in_patch(current_patch_index - 1)
                 curr_commit_message == message(commit(At(p.stack, current_patch_index)))
             IN  IF parent_diff = None THEN p
                 ELSE amend(p, curr_commit_message
                                   \o <<BlankLine, DependsOn(parent_diff[2])>>)

_add_depends_on_if_appropriate(self) ==
    LET p == self
        current_patch_index == _find_current_patch_index(p)
    IN  IF current_patch_index < 1 THEN p
        ELSE LET parent_diff == _get_differential_revision_in_patch(current_patch_index - 1)
                 yielded == _commits_in_reverse(At(p.stack, current_patch_index),
                                                At(p.stack, current_patch_index - 1))
                 curr_commit_message == message(commit(At(p.stack, current_patch_index)))
             IN  IF parent_diff = None THEN p
                 ELSE IF \E k \in 1..Len(yielded) :
                             re_search("depends", message(yielded[k])) > 0
                 THEN p
                 ELSE amend(p, curr_commit_message
                                   \o <<BlankLine, DependsOn(parent_diff[2])>>)

(***************************************************************************)
(* Specification of the navigator.  A GackRepo is constructed on the       *)
(* repository and the stack file as earlier invocations left them: a stack *)
(* of pairwise distinct names, main first, whose branches exist and each   *)
(* carry one commit on top of the patch below; a branch that is not        *)
(* tracked exists or not, with one commit on top of the root's.  Then any  *)
(* sequence of invocations, MaxOps of them.                                *)
(***************************************************************************)
Idle == [op |-> "init", name |-> NoPatch, flag |-> FALSE, pre |-> <<>>,
         outcome |-> "ok", calls |-> <<>>]

NoWalk == [from_patch |-> NoPatch, parent_patch |-> NoPatch, yielded |-> <<>>]

NoReview == [patch_index |-> -1, revision |-> None]

\* no commit message is looked at
NoMessages == <<>>

\* no invocations side by side
NoProcesses == <<>>

Range(seq) == {seq[i] : i \in 1..Len(seq)}

InitStacks == {SubSeq(<<stack_root, "A", "B", "C">>, 1, n) : n \in 1..4}

\* the history 0, 1, ..., n - 1
Chain(n) == [i \in 1..n |-> i - 1]

InitHeads(stack) ==
    {[b \in Range(stack) \cup U |->
         IF b \in Range(stack) THEN Chain(_find_patch_index(stack, b) + 1)
         ELSE <<0, OwnChange(b)>>] :
        U \in SUBSET (BranchNames \ Range(stack))}

Init ==
    /\ stack_file \in InitStacks
    /\ _stack_cache = <<>>
    /\ heads \in InitHeads(stack_file)
    /\ active_branch \in DOMAIN heads
    /\ is_initialized = TRUE
    /\ messages = NoMessages
    /\ last = Idle
    /\ invocations = 0
    /\ walk = NoWalk
    /\ review = NoReview
    /\ processes = NoProcesses

\* the invocation ends: what it leaves in the file, the repository and the
\* process
Finish(op, name, flag, self, p) ==
    /\ is_initialized
    /\ invocations < MaxOps
    /\ invocations' = invocations + 1
    /\ is_initialized' = p.exists
    /\ stack_file' = IF p.exists THEN p.file ELSE <<>>
    /\ _stack_cache' = p.stack
    /\ heads' = p.heads
    /\ messages' = p.messages
    /\ active_branch' = p.active
    /\ last' = [op |-> op, name |-> name, flag |-> flag, pre |-> self,
                outcome |-> p.outcome, calls |-> p.calls]
    /\ review' = NoReview
    /\ UNCHANGED <<walk, processes>>

Untrack(self) ==
    \E branch \in BranchNames, delete \in BOOLEAN :
        Finish("untrack", branch, delete, self, untrack(self, branch, delete))

Pop(self) == \E all \in BOOLEAN : Finish("pop", NoPatch, all, self, pop(self, all))

PushOne(self) ==
    \E rebase \in BOOLEAN :
        Finish("push_one", NoPatch, rebase, self, push_one(self, rebase))

PushExistingBranch(self) ==
    \E branch_name \in BranchNames, rebase \in BOOLEAN :
        Finish("push_existing_branch", branch_name, rebase, self,
               push_existing_branch(self, branch_name, rebase))

PushNewBranch(self) ==
    \E branch_name \in BranchNames :
        Finish("push_new_branch", branch_name, FALSE, self,
               push_new_branch(self, branch_name))

ArcLand(self) ==
    \E result \in LandResults :
        Finish("arc_land", result, FALSE, self, arc_land(self, result))

Next ==
    \/ Untrack(Begin) \/ Pop(Begin) \/ PushOne(Begin)
    \/ PushExistingBranch(Begin) \/ PushNewBranch(Begin) \/ ArcLand(Begin)

Spec == Init /\ [][Next]_vars

(***************************************************************************)
(* Specification of the navigator beside `gack deinit`: as above, and the  *)
(* stack file is removed by an invocation of its own or, by another        *)
(* process, while an invocation runs: after main() found the repository    *)
(* initialized and the stack was loaded, before the handler saves.         *)
(***************************************************************************)
\* the process that has loaded the stack, the stack file removed behind it
\* or not
Loaded(removed) == [Begin EXCEPT !.exists = ~removed]

\* deinitialize: os.remove of the stack file; the stack is never loaded
deinitialize(self) ==
    [self EXCEPT !.stack = <<>>, !.exists = FALSE,
                 !.calls = Append(@, <<"remove", "">>)]

Deinitialize == Finish("deinitialize", NoPatch, FALSE, Begin, deinitialize(Begin))

DeinitNext ==
    \/ \E removed \in BOOLEAN :
           \/ Untrack(Loaded(removed)) \/ Pop(Loaded(removed))
           \/ PushOne(Loaded(removed)) \/ PushExistingBranch(Loaded(removed))
           \/ PushNewBranch(Loaded(removed)) \/ ArcLand(Loaded(removed))
    \/ Deinitialize

SpecDeinit == Init /\ [][DeinitNext]_vars

(***************************************************************************)
(* Specification of two invocations side by side, in two shells on one     *)
(* repository.  A handler's first statement reads the active branch and    *)
(* loads the stack into the process; the rest of the handler works on what *)
(* the process holds.  Nothing keeps the other process from running in     *)
(* between.  Each process runs push_existing_branch or untrack once.       *)
(***************************************************************************)
Procs == {1, 2}

\* a process before its handler's first statement
Started ==
    [pc |-> "started", stack |-> <<>>, active |-> NoPatch, op |-> "",
     name |-> NoPatch, outcome |-> "", overtaken |-> FALSE]

ConcInit ==
    /\ stack_file \in InitStacks
    /\ _stack_cache = <<>>
    /\ heads \in InitHeads(stack_file)
    /\ active_branch \in DOMAIN heads
    /\ is_initialized = TRUE
    /\ messages = NoMessages
    /\ last = Idle
    /\ invocations = 0
    /\ walk = NoWalk
    /\ review = NoReview
    /\ processes = [i \in Procs |-> Started]

\* _find_current_patch_index at the head of a handler: current_patch is
\* read and the first use of _stack fills the cache from the stack file
ConcLoad(i) ==
    /\ processes[i].pc = "started"
    /\ is_initialized
    /\ processes' = [processes EXCEPT ![i].pc = "loaded",
                                      ![i].stack = _stack,
                                      ![i].active = active_branch]
    /\ UNCHANGED <<is_initialized, stack_file, _stack_cache, heads, messages,
                   active_branch, last, invocations, walk, review>>

\* a process that loads the stack anew when the rest of its handler runs
ProcessSelf_reloading(i) == Begin

\* process i at the rest of its handler: the stack and the active branch are
\* the ones it has read, the repository and the stack file are as they are
ProcessSelf(i) ==
    [Begin EXCEPT !.stack = processes[i].stack, !.active = processes[i].active]

\* the handler of process i ends; a process that has loaded and not yet
\* returned is overtaken
ConcFinish(i, op, name, self, p) ==
    /\ processes[i].pc = "loaded"
    /\ is_initialized' = p.exists
    /\ stack_file' = IF p.exists THEN p.file ELSE <<>>
    /\ _stack_cache' = p.stack
    /\ heads' = p.heads
    /\ messages' = p.messages
    /\ active_branch' = IF \E k \in 1..Len(p.calls) : p.calls[k][1] = "checkout"
                        THEN p.active ELSE active_branch
    /\ last' = [op |-> op, name |-> name, flag |-> FALSE, pre |-> self,
                outcome |-> p.outcome, calls |-> p.calls]
    /\ processes' = [j \in Procs |->
                        IF j = i
                        THEN [processes[i] EXCEPT !.pc = "returned", !.op = op,
                                                  !.name = name,
                                                  !.outcome = p.outcome]
                        ELSE IF processes[j].pc = "loaded"
                        THEN [processes[j] EXCEPT !.overtaken = TRUE]
                        ELSE processes[j]]
    /\ UNCHANGED <<invocations, walk, review>>

ConcPushExistingBranch(i) ==
    \E branch_name \in BranchNames :
        ConcFinish(i, "push_existing_branch", branch_name, ProcessSelf(i),
                   push_existing_branch(ProcessSelf(i), branch_name, FALSE))

ConcUntrack(i) ==
    \E branch \in BranchNames :
        ConcFinish(i, "untrack", branch, ProcessSelf(i),
                   untrack(ProcessSelf(i), branch, FALSE))

ConcNext ==
    \E i \in Procs : ConcLoad(i) \/ ConcPushExistingBranch(i) \/ ConcUntrack(i)

SpecConc == ConcInit /\ [][ConcNext]_vars

(***************************************************************************)
(* Specification of the walker: a stack main, A, B over a first-parent     *)
(* chain of up to MaxChain commits with B at its end; A and main each sit  *)
(* on a commit of the chain or on a commit off it.  Any patch is walked    *)
(* towards any boundary, and towards none.                                 *)
(***************************************************************************)
WalkStack == <<stack_root, "A", "B">>

\* the commits of the chain to n, and one commit that is not on it
WalkTips(n) == {Chain(k) : k \in 1..n} \cup {<<0, -1>>}

WalkInit ==
    /\ stack_file = WalkStack
    /\ _stack_cache = <<>>
    /\ \E n \in 1..MaxChain :
           heads \in {[b \in Range(WalkStack) |->
                          IF b = "B" THEN Chain(n)
                          ELSE IF b = "A" THEN a ELSE m] :
                         a \in WalkTips(n), m \in WalkTips(n)}
    /\ active_branch \in Range(WalkStack)
    /\ is_initialized = TRUE
    /\ messages = NoMessages
    /\ last = Idle
    /\ invocations = 0
    /\ walk = NoWalk
    /\ review = NoReview
    /\ processes = NoProcesses

Walk ==
    \E from_patch \in Range(_stack), parent_patch \in Range(_stack) \cup {NoPatch} :
        /\ walk' = [from_patch |-> from_patch, parent_patch |-> parent_patch,
                    yielded |-> _commits_in_reverse(from_patch, parent_patch)]
        /\ UNCHANGED <<is_initialized, stack_file, _stack_cache, heads, messages,
                       active_branch, last, invocations, review, processes>>

WalkNext == Walk

SpecWalk == WalkInit /\ [][WalkNext]_vars

(***************************************************************************)
(* Specification of the stack file as text: a process that holds a stack   *)
(* of up to MaxNames names of up to MaxNameLen characters, white space     *)
(* among them, writes the stack file, and a new process reads it.          *)
(***************************************************************************)
NameChars == {"a", " ", LF}

Names == UNION {[1..n -> NameChars] : n \in 0..MaxNameLen}

StoreInit ==
    /\ _stack_cache \in UNION {[1..n -> Names] : n \in 0..MaxNames}
    /\ stack_file = <<>>
    /\ is_initialized = TRUE
    /\ heads = <<>>
    /\ messages = NoMessages
    /\ active_branch = NoPatch
    /\ last = Idle
    /\ invocations = 0
    /\ walk = NoWalk
    /\ review = NoReview
    /\ processes = NoProcesses

\* _update_stack_file; last.pre is the stack written
Save ==
    /\ stack_file' = write_lines(_stack_cache)
    /\ last' = [Idle EXCEPT !.op = "_update_stack_file", !.pre = _stack_cache]
    /\ UNCHANGED <<is_initialized, _stack_cache, heads, messages, active_branch,
                   invocations, walk, review, processes>>

\* the first use of _stack in a new process
Load ==
    /\ _stack_cache' = read_lines(stack_file)
    /\ last' = [last EXCEPT !.op = "_stack"]
    /\ UNCHANGED <<is_initialized, stack_file, heads, messages, active_branch,
                   invocations, walk, review, processes>>

StoreNext == Save \/ Load

SpecStore == StoreInit /\ [][StoreNext]_vars

(***************************************************************************)
(* Specification of the review annotations: a stack main, A, B with up to  *)
(* two commits on A and on B; B sits on A's tip, or on the root's when it  *)
(* missed a rebase.  Each commit's message holds a revision footer, a      *)
(* dependency marker, both or neither.  The revision of any patch is       *)
(* resolved, and the dependency of the active patch is recorded, in any    *)
(* order.                                                                  *)
(***************************************************************************)
ReviewChanges == 0..3

ReviewHeads ==
    {[b \in Range(WalkStack) |-> IF b = "B" THEN t ELSE IF b = "A" THEN a ELSE <<0>>] :
        a \in {<<0>>, <<0, 1>>, <<0, 1, 2>>},
        t \in {<<0>>, <<0, 1>>, <<0, 1, 2>>, <<0, 1, 3>>, <<0, 1, 2, 3>>, <<0, 3>>}}

\* the message of change l for each choice of footers
ReviewMessage(l, footers) ==
    <<Text>> \o (IF footers \in {"revision", "both"}
                 THEN <<BlankLine, DifferentialRevision(l)>> ELSE <<>>)
             \o (IF footers \in {"depends", "both"}
                 THEN <<BlankLine, DependsOn(l)>> ELSE <<>>)

ReviewInit ==
    /\ stack_file = WalkStack
    /\ _stack_cache = <<>>
    /\ heads \in ReviewHeads
    /\ OnChain(heads["A"], heads["B"]) \/ heads["B"] = <<0, 3>>
    /\ active_branch \in Range(WalkStack)
    /\ is_initialized = TRUE
    /\ \E footers \in [ReviewChanges -> {"none", "revision", "depends", "both"}] :
           /\ footers[0] \in {"none", "revision"}
           /\ messages = [l \in ReviewChanges |-> ReviewMessage(l, footers[l])]
    /\ last = Idle
    /\ invocations = 0
    /\ walk = NoWalk
    /\ review = NoReview
    /\ processes = NoProcesses

Resolve ==
    \E patch_index \in 0..(Len(_stack) - 1) :
        /\ review' = [patch_index |-> patch_index,
                      revision |-> _get_differential_revision_in_patch(patch_index)]
        /\ UNCHANGED <<is_initialized, stack_file, _stack_cache, heads, messages,
                       active_branch, last, invocations, walk, processes>>

AddDependsOn ==
    Finish("_add_depends_on_if_appropriate", NoPatch, FALSE, Begin,
           _add_depends_on_if_appropriate(Begin))

ReviewNext == Resolve \/ AddDependsOn

SpecReview == ReviewInit /\ [][ReviewNext]_vars

(***************************************************************************)
(* Properties.  last.pre is the state the last invocation started from.    *)
(***************************************************************************)
NoDuplicates(seq) == \A i, j \in 1..Len(seq) : i # j => seq[i] # seq[j]

\* whether the invocation made a call of the kind
Called(kind) == \E i \in 1..Len(last.calls) : last.calls[i][1] = kind

\* the index of the active patch when the last invocation started
PreIndex == _find_patch_index(last.pre.stack, last.pre.active)

\* nothing the invocation could have touched has changed
Untouched ==
    /\ _stack_cache = last.pre.stack
    /\ stack_file = last.pre.file
    /\ heads = last.pre.heads
    /\ active_branch = last.pre.active

\* C1: from a stack of pairwise distinct names, after any sequence of
\* push_one, push_existing_branch, push_new_branch, pop, untrack and arc_land
\* the stack, in memory and in the stack file, holds no name twice.
C1_NamesUnique == NoDuplicates(stack_file) /\ NoDuplicates(_stack_cache)

\* C2: untrack(name) with the active patch's index greater than the index of
\* name changes nothing: the stack in memory, the stack file, the branches
\* and the active branch are as before, with delete set or not.
C2_UntrackPushedFails ==
    (last.op = "untrack"
        /\ PreIndex > _find_patch_index(last.pre.stack, last.name))
    => (Untouched /\ last.outcome = "printed")

\* C2 happens: stack [main, A, B], active B, untrack(A) with delete set.
C2_Witness ==
    /\ last.op = "untrack" /\ last.name = "A" /\ last.flag
    /\ last.pre.stack = <<"main", "A", "B">> /\ last.pre.active = "B"
    /\ stack_file = <<"main", "A", "B">>

\* the earliest commit of the walk from patch towards parent_patch in the
\* state before the invocation, None when the walk yields nothing
PreRootCommit(patch, parent_patch) ==
    LET yielded == CommitsFrom(last.pre.heads[patch], last.pre.heads[parent_patch],
                               last.pre.heads[At(last.pre.stack, 0)], 0)
    IN  IF yielded = <<>> THEN None ELSE yielded[Len(yielded)]

\* C3: after a land that succeeds from the stack [root, A, B, C] the stack is
\* [root, B, C], the parent of B's root commit is root's tip, and the
\* first-parent chain of C reaches B's tip.
C3_LandCascade ==
    (last.op = "arc_land" /\ last.outcome = "ok"
        /\ Len(last.pre.stack) = 4 /\ NoDuplicates(last.pre.stack)
        /\ Range(last.pre.stack) \subseteq DOMAIN last.pre.heads)
    => LET root == At(last.pre.stack, 0)
           A == At(last.pre.stack, 1)
           B == At(last.pre.stack, 2)
           C == At(last.pre.stack, 3)
       IN  /\ _stack_cache = <<root, B, C>>
           /\ stack_file = <<root, B, C>>
           /\ PreRootCommit(B, A) # None =>
                  parents(PreRootCommit(B, A)) = <<heads[root]>>
           /\ OnChain(heads[B], heads[C])

\* C4: when the external land fails, arc_land leaves the stack in memory and
\* the stack file as they were and writes nothing: the process exits at the
\* land call.
C4_FailedLandKeepsStack ==
    (last.op = "arc_land" /\ last.name = "failed")
    => /\ _stack_cache = last.pre.stack
       /\ stack_file = last.pre.file
       /\ ~Called("write")
       /\ last.outcome \in {"exited", "printed"}

\* C4 happens: the active patch is at index 1, the land is called and fails.
C4_Witness ==
    /\ last.op = "arc_land" /\ last.name = "failed"
    /\ PreIndex = 1 /\ Called("arc land") /\ last.outcome = "exited"

\* C5: arc_land calls the external land and removes a patch only when the
\* active patch's index is 1; at any other index, or untracked, no land call
\* is made and the stack is unchanged.
C5_LandOnlyFirstPatch ==
    last.op = "arc_land"
    => /\ PreIndex # 1 => (~Called("arc land") /\ Untouched)
       /\ (Called("arc land") \/ _stack_cache # last.pre.stack
              \/ stack_file # last.pre.file) => PreIndex = 1

\* C5 happens: arc_land with the active patch at index 2, and nothing done.
C5_Witness ==
    /\ last.op = "arc_land" /\ PreIndex = 2 /\ last.name = "squash"
    /\ last.outcome = "printed"

\* C6: pop with the active patch at index i changes nothing when i < 0 or
\* i = 0; otherwise it checks out the patch at index 0 when all is set and
\* the patch at index i - 1 when not.  It never rebases and never changes the
\* stack.
C6_Pop ==
    last.op = "pop"
    => /\ PreIndex <= 0 => Untouched
       /\ PreIndex > 0 =>
              active_branch = IF last.flag THEN At(last.pre.stack, 0)
                              ELSE At(last.pre.stack, PreIndex - 1)
       /\ ~Called("rebase")
       /\ heads = last.pre.heads
       /\ _stack_cache = last.pre.stack
       /\ stack_file = last.pre.file

\* the argument of the invocation's call of the kind
CallArg(kind) ==
    last.calls[CHOOSE i \in 1..Len(last.calls) : last.calls[i][1] = kind][2]

\* C7: for every stack and every active patch, push_new_branch(name)
\* followed at once by pop(all = false) leaves the branch active that was
\* active before the push.
C7_PushNewThenPop ==
    (last.op = "push_new_branch" /\ last.outcome \in {"ok", "printed"})
    => pop(Begin, FALSE).active = last.pre.active

\* C8: push_existing_branch(name, rebase) with the active patch tracked at
\* index i and name not tracked inserts name at index i + 1, writes the stack
\* file, makes name the active patch and rebases it onto the patch active
\* before iff rebase is set; with name tracked or the active patch untracked
\* it changes nothing.
C8_PushExisting ==
    last.op = "push_existing_branch"
    => IF PreIndex >= 0 /\ _find_patch_index(last.pre.stack, last.name) < 0
       THEN /\ _stack_cache = Insert(last.pre.stack, PreIndex + 1, last.name)
            /\ stack_file = _stack_cache
            /\ active_branch = last.name
            /\ Called("rebase") <=> last.flag
            /\ last.flag => CallArg("rebase") = last.pre.active
       ELSE Untouched

\* C9: push_one(rebase) with the active patch at index i, 0 <= i < len - 1,
\* checks out the patch at i + 1 and rebases it onto the patch active before
\* iff rebase is set; with i < 0 or i the last index it changes nothing.  The
\* stack is never changed.
C9_PushOne ==
    last.op = "push_one"
    => /\ IF PreIndex >= 0 /\ PreIndex < Len(last.pre.stack) - 1
          THEN /\ active_branch = At(last.pre.stack, PreIndex + 1)
               /\ Called("rebase") <=> last.flag
               /\ last.flag => CallArg("rebase") = last.pre.active
          ELSE Untouched
       /\ _stack_cache = last.pre.stack
       /\ stack_file = last.pre.file

\* C10: a walk from a patch towards its boundary patch yields at most
\* MAX_COMMITS commits, and yields neither the boundary patch's tip nor the
\* root patch's tip.
C10_WalkWithinCap ==
    walk.from_patch # NoPatch
    => /\ Len(walk.yielded) <= MAX_COMMITS
       /\ \A k \in 1..Len(walk.yielded) :
              /\ walk.yielded[k] # commit(walk.parent_patch)
              /\ walk.yielded[k] # commit(At(_stack, 0))

\* the first-parent chain of a commit: the commit, its parent, and so on to
\* the commit without parent
Ancestry(c) == [k \in 1..Len(c) |-> SubSeq(c, 1, Len(c) - k + 1)]

\* the first n elements of a sequence, all of them when it has fewer
Prefix(seq, n) == SubSeq(seq, 1, IF n < Len(seq) THEN n ELSE Len(seq))

\* C11 as claimed: the walk of the root patch with no boundary patch stops
\* only at the cap or at a commit without parent, so it yields the tip of
\* the root patch and its ancestors.
C11_RootWalkYieldsAncestors ==
    (walk.from_patch = At(_stack, 0) /\ walk.parent_patch = NoPatch)
    => /\ walk.yielded # <<>>
       /\ walk.yielded = Prefix(Ancestry(commit(walk.from_patch)),
                                Len(walk.yielded))
       /\ \/ Len(walk.yielded) > MAX_COMMITS
          \/ Len(walk.yielded) = Len(commit(walk.from_patch))

\* C11, amended: the walk of the root patch with no boundary patch yields no
\* commit at all: the commit it starts from is the root patch's tip, at
\* which the walk stops before it yields.
C11_RootWalkYieldsNothing ==
    (walk.from_patch = At(_stack, 0) /\ walk.parent_patch = NoPatch)
    => walk.yielded = <<>>

\* C11 happens: the root patch, with a tip that has ancestors, is walked
\* with no boundary while another commit is checked out.
C11_Witness ==
    /\ walk.from_patch = At(_stack, 0) /\ walk.parent_patch = NoPatch
    /\ Len(heads[At(_stack, 0)]) > 2
    /\ heads[active_branch] # heads[At(_stack, 0)]

\* the commits of the first-parent chain from tip before the first one that
\* is the boundary's tip or the root's tip
OwnRange(tip, boundary, root) ==
    LET chain == Ancestry(tip)
        stops == {k \in 1..Len(chain) : chain[k] = boundary \/ chain[k] = root}
    IN  IF stops = {} THEN chain
        ELSE SubSeq(chain, 1, (CHOOSE k \in stops : \A j \in stops : k <= j) - 1)

WalkedRange ==
    OwnRange(commit(walk.from_patch), commit(walk.parent_patch),
             commit(At(_stack, 0)))

\* C12 as claimed: the walk yields exactly the commits of the first-parent
\* chain from the patch's tip, in order, up to but excluding the first
\* commit that is the boundary patch's tip or the root patch's tip.
C12_WalkYieldsOwnRange ==
    walk.from_patch # NoPatch => walk.yielded = WalkedRange

\* C12, amended: the walk yields the commits of that range in order from the
\* tip; all of them when the range holds at most MAX_COMMITS commits, and
\* of a longer range at least the first MAX_COMMITS and no others.
C12_WalkYieldsOwnRangeToCap ==
    walk.from_patch # NoPatch
    => /\ walk.yielded = Prefix(WalkedRange, Len(walk.yielded))
       /\ Len(walk.yielded) <= Len(WalkedRange)
       /\ Len(WalkedRange) <= MAX_COMMITS => walk.yielded = WalkedRange
       /\ Len(WalkedRange) > MAX_COMMITS => Len(walk.yielded) >= MAX_COMMITS

\* C12 happens: B was not rebased onto A, its chain does not reach A's tip,
\* and the walk from B towards A ends below the root patch's tip.
C12_Witness ==
    /\ walk.from_patch = "B" /\ walk.parent_patch = "A"
    /\ ~OnChain(heads["A"], heads["B"])
    /\ Len(heads[At(_stack, 0)]) > 1
    /\ walk.yielded # <<>>
    /\ parents(walk.yielded[Len(walk.yielded)]) = <<heads[At(_stack, 0)]>>

\* whether the message of commit c holds a revision footer, and the revision
\* of its first one
Carries(c) == \E j \in 1..Len(message(c)) : message(c)[j].kind = "revision"

RevisionOf(c) ==
    LET msg == message(c)
    IN  <<"D", msg[CHOOSE j \in 1..Len(msg) :
                      /\ msg[j].kind = "revision"
                      /\ \A i \in 1..(j - 1) : msg[i].kind # "revision"].id>>

\* the boundary patch of the patch at index i, none for the root patch
Boundary(i) == IF i > 0 THEN At(_stack, i - 1) ELSE NoPatch

\* C13: the resolver returns the revision of the first commit, from the
\* patch's tip backward along the walk, whose message carries a revision
\* footer, and none when no commit the walk visits carries one; it never
\* returns a footer of a commit at or below the boundary.
C13_ResolveFirstFooter ==
    review.patch_index >= 0
    => LET i == review.patch_index
           visited == _commits_in_reverse(At(_stack, i), Boundary(i))
           range == OwnRange(commit(At(_stack, i)), commit(Boundary(i)),
                             commit(At(_stack, 0)))
       IN  /\ (\A k \in 1..Len(visited) : ~Carries(visited[k]))
                  => review.revision = None
           /\ \A k \in 1..Len(visited) :
                  (Carries(visited[k]) /\ \A j \in 1..(k - 1) : ~Carries(visited[j]))
                  => review.revision = RevisionOf(visited[k])
           /\ review.revision # None
                  => \E k \in 1..Len(range) :
                         Carries(range[k]) /\ review.revision = RevisionOf(range[k])

\* C13 happens: B holds two commits on A's tip; B's tip carries no footer,
\* the commit below it, A's tip and the commit below A's tip each carry
\* one, and the resolver returns the one of B's second commit.
C13_Witness ==
    /\ review.patch_index = 2
    /\ heads["A"] = <<0, 1>> /\ heads["B"] = <<0, 1, 2, 3>>
    /\ ~Carries(<<0, 1, 2, 3>>) /\ Carries(<<0, 1, 2>>)
    /\ Carries(<<0, 1>>) /\ Carries(<<0>>)
    /\ review.revision = <<"D", 2>>

\* whether the handler that ended as q amended a commit
Amends(q) == \E i \in 1..Len(q.calls) : q.calls[i][1] = "amend"

\* C14: after a call of the annotator that amended the tip with a
\* dependency marker, a second call amends nothing and leaves the
\* repository as it is; also when the patch had no commit of its own
\* before the first call.
C14_DependsOnIdempotent ==
    (last.op = "_add_depends_on_if_appropriate" /\ Called("amend"))
    => LET q == _add_depends_on_if_appropriate(Begin)
       IN  ~Amends(q) /\ q.heads = heads /\ q.messages = messages

\* C14 happens: the annotator amended the tip of a patch that sat on the tip
\* of its predecessor, with no commit of its own.
C14_Witness ==
    /\ last.op = "_add_depends_on_if_appropriate" /\ Called("amend")
    /\ PreIndex = 2
    /\ last.pre.heads[last.pre.active] = last.pre.heads[At(last.pre.stack, 1)]
    /\ heads[active_branch] # last.pre.heads[last.pre.active]

\* C15: the annotator amends nothing when the active patch's index is below
\* 1, when the predecessor has no resolvable revision, or when a commit of
\* the patch's walked range holds a dependency marker; in every other case
\* it replaces the patch's tip by a commit on the same parent whose message
\* is the tip's followed by a blank line and 'Depends on D<n>', D<n> the
\* predecessor's resolved revision, and changes no other message and no
\* other branch.
C15_DependsOnAmendsTip ==
    LET q == _add_depends_on_if_appropriate(Begin)
        i == _find_patch_index(_stack, active_branch)
        parent_diff == _get_differential_revision_in_patch(i - 1)
        range == _commits_in_reverse(At(_stack, i), At(_stack, i - 1))
        Marked(c) == \E j \in 1..Len(message(c)) : message(c)[j].kind = "depends"
        tip == heads[active_branch]
        new_tip == q.heads[active_branch]
    IN  IF i < 1 \/ parent_diff = None \/ \E k \in 1..Len(range) : Marked(range[k])
        THEN ~Amends(q) /\ q.heads = heads /\ q.messages = messages
        ELSE /\ Amends(q)
             /\ new_tip # tip
             /\ parents(new_tip) = parents(tip)
             /\ q.messages[new_tip[Len(new_tip)]]
                    = message(tip) \o <<BlankLine, DependsOn(parent_diff[2])>>
             /\ \A l \in DOMAIN messages : q.messages[l] = messages[l]
             /\ \A b \in DOMAIN heads \ {active_branch} : q.heads[b] = heads[b]
             /\ DOMAIN q.heads = DOMAIN heads
             /\ q.active = active_branch /\ q.stack = _stack /\ q.file = stack_file

\* C15 happens: B holds a commit of its own without marker, A's revision
\* resolves, and the annotator has amended B's tip.
C15_Witness ==
    /\ last.op = "_add_depends_on_if_appropriate" /\ Called("amend")
    /\ last.pre.active = "B"
    /\ last.pre.heads["A"] = <<0, 1>> /\ last.pre.heads["B"] = <<0, 1, 3>>
    /\ heads["B"] = <<0, 1, 4>>
    /\ messages[4] = last.pre.messages[3] \o <<BlankLine, DependsOn(1)>>

\* C16 as claimed: for every sequence of names, the stack a new process
\* reads from the stack file is the stack that was written to it.
C16_RoundTrip == last.op = "_stack" => _stack_cache = last.pre

\* whether no name starts or ends with white space or holds a line break
Plain(stack) ==
    \A i \in 1..Len(stack) :
        /\ strip(stack[i]) = stack[i]
        /\ \A j \in 1..Len(stack[i]) : stack[i][j] # LF

\* C16, amended: the stack read is the stack written for every sequence of
\* names none of which starts or ends with white space or holds a line
\* break, as is the case for the names of git branches.
C16_RoundTripPlain == (last.op = "_stack" /\ Plain(last.pre)) => _stack_cache = last.pre

\* C16 happens: the names a and aa, in this order, were written and read.
C16_Witness ==
    /\ last.op = "_stack"
    /\ last.pre = << <<"a">>, <<"a", "a">> >>
    /\ stack_file = <<"a", LF, "a", "a", LF>>
    /\ _stack_cache = last.pre

\* C17: when the stack file is gone at the moment an operation saves the
\* stack, the save raises and does not create the file; and push, pop and
\* untrack end with a raised error under no other condition.
C17_RaisesOnlyWithoutStackFile ==
    /\ (last.op # "init" /\ ~last.pre.exists)
           => /\ ~is_initialized
              /\ ~Called("write")
              /\ _stack_cache # last.pre.stack => last.outcome = "raised"
    /\ (last.op \in {"push_one", "push_existing_branch", "push_new_branch",
                      "pop", "untrack"}
           /\ last.outcome = "raised")
           => (~last.pre.exists /\ _stack_cache # last.pre.stack)

\* whether the name was tracked when the last invocation started
PreTracked(name) == _find_patch_index(last.pre.stack, name) >= 0

\* whether the last invocation started with an ordinary precondition of its
\* operation violated
PreconditionViolated ==
    CASE last.op = "pop" -> PreIndex <= 0
      [] last.op = "push_one" -> PreIndex < 0 \/ PreIndex = Len(last.pre.stack) - 1
      [] last.op = "push_existing_branch" -> PreIndex < 0 \/ PreTracked(last.name)
      [] last.op = "push_new_branch" -> PreIndex < 0 \/ PreTracked(last.name)
      [] last.op = "untrack" -> ~PreTracked(last.name)
      [] OTHER -> FALSE

\* C18: with the active patch untracked, the bottom or the top reached, the
\* pushed name already tracked or the untracked name not tracked, pop,
\* push_one, push_existing_branch, push_new_branch and untrack return
\* without raising and leave the stack in memory, the stack file, the
\* branches and the active branch as they were.
C18_ViolationsChangeNothing ==
    PreconditionViolated => (last.outcome \in {"ok", "printed"} /\ Untouched)

\* the position of the invocation's first call of the kind, 0 for none
Position(kind) ==
    IF Called(kind)
    THEN CHOOSE i \in 1..Len(last.calls) :
             /\ last.calls[i][1] = kind
             /\ \A j \in 1..(i - 1) : last.calls[j][1] # kind
    ELSE 0

\* C19: in an invocation that writes the stack file, the write comes after
\* the change of the repository it records: after the creation of the
\* branch in push_new_branch, after the checkout in push_existing_branch,
\* after the deletion of the branch in untrack with delete, and in arc_land
\* after the land call.
C19_WriteAfterMutation ==
    Called("write")
    => LET Before(kind) == Position(kind) > 0 /\ Position(kind) < Position("write")
       IN  /\ last.op = "push_new_branch" => Before("create_head")
           /\ last.op = "push_existing_branch" => Before("checkout")
           /\ (last.op = "untrack" /\ last.flag) => Before("delete_head")
           /\ last.op = "arc_land" => Before("arc land")

\* C20: whenever push_existing_branch, push_new_branch, untrack or arc_land
\* returns without raising or exiting, the stack file holds the stack the
\* process holds in memory; and when another process removed the stack file
\* meanwhile, the stack in memory is the one that was loaded.
C20_ReturnsPersisted ==
    (last.op \in {"push_existing_branch", "push_new_branch", "untrack", "arc_land"}
        /\ last.outcome \in {"ok", "printed"})
    => /\ last.pre.exists => (is_initialized /\ stack_file = _stack_cache)
       /\ ~last.pre.exists => (~is_initialized /\ _stack_cache = last.pre.stack)

\* C20 happens: push_new_branch inserted a name and returned, and the stack
\* file holds the longer stack.
C20_Witness ==
    /\ last.op = "push_new_branch" /\ last.outcome = "ok"
    /\ Len(_stack_cache) = Len(last.pre.stack) + 1
    /\ last.pre.file = last.pre.stack
    /\ stack_file = _stack_cache

\* C21: two invocations run side by side, each on the stack it has loaded.
\* When both return without failure and the one that returns last had
\* loaded before the other returned, the stack file lacks the effect of the
\* one that returned first: the name it pushed is not in the file, the name
\* it untracked still is.
C21_LostUpdate ==
    \A a, b \in DOMAIN processes :
        (/\ a # b
         /\ processes[a].pc = "returned" /\ processes[b].pc = "returned"
         /\ processes[a].outcome = "ok" /\ processes[b].outcome = "ok"
         /\ ~processes[a].overtaken /\ processes[b].overtaken
         /\ processes[a].name # processes[b].name)
        => /\ processes[a].op = "push_existing_branch"
                  => processes[a].name \notin Range(stack_file)
           /\ processes[a].op = "untrack"
                  => processes[a].name \in Range(stack_file)

\* C21 happens: both processes pushed a branch of their own and returned
\* without failure, and the stack file holds only one of the two names.
C21_Witness ==
    /\ processes # NoProcesses
    /\ \A i \in DOMAIN processes :
           /\ processes[i].pc = "returned" /\ processes[i].outcome = "ok"
           /\ processes[i].op = "push_existing_branch"
    /\ processes[1].name # processes[2].name
    /\ processes[1].name \notin Range(stack_file)
    /\ processes[2].name \in Range(stack_file)

\* C22: after any sequence of push, pop, untrack and arc_land on an
\* initialized stack the stack, in memory and in the file, is not empty and
\* its name at index 0 is the root name it started with.
C22_RootPermanent ==
    last.op # "init"
    => /\ stack_file # <<>> /\ At(stack_file, 0) = stack_root
       /\ _stack_cache # <<>> /\ At(_stack_cache, 0) = stack_root

\* whether new is old with x put in at index j and nothing else changed
InsertedAt(new, old, j, x) ==
    /\ Len(new) = Len(old) + 1
    /\ At(new, j) = x
    /\ \A k \in 0..(j - 1) : At(new, k) = At(old, k)
    /\ \A k \in j..(Len(old) - 1) : At(new, k + 1) = At(old, k)

\* whether new is old with the element at index j taken out and nothing
\* else changed
RemovedAt(new, old, j) ==
    /\ Len(new) = Len(old) - 1
    /\ \A k \in 0..(j - 1) : At(new, k) = At(old, k)
    /\ \A k \in (j + 1)..(Len(old) - 1) : At(new, k - 1) = At(old, k)

\* C23: a mutating operation that succeeds changes the stack, in memory and
\* in the file, by exactly one element and keeps the order of the others:
\* push_existing_branch and push_new_branch put the name in directly after
\* the active patch, untrack takes out the named patch and arc_land the
\* patch at index 1.
C23_OneElementChanged ==
    last.outcome = "ok"
    => /\ last.op \in {"push_existing_branch", "push_new_branch"}
              => /\ InsertedAt(_stack_cache, last.pre.stack, PreIndex + 1, last.name)
                 /\ stack_file = _stack_cache
       /\ last.op = "untrack"
              => /\ \E j \in 0..(Len(last.pre.stack) - 1) :
                        /\ At(last.pre.stack, j) = last.name
                        /\ RemovedAt(_stack_cache, last.pre.stack, j)
                 /\ stack_file = _stack_cache
       /\ last.op = "arc_land"
              => /\ RemovedAt(_stack_cache, last.pre.stack, 1)
                 /\ stack_file = _stack_cache

\* C23 happens: with main, A, B, C tracked and A active, B was not tracked
\* any more after untrack, and then pushed again: it sits between A and C.
C23_Witness ==
    /\ last.op = "push_existing_branch" /\ last.name = "B" /\ last.outcome = "ok"
    /\ last.pre.stack = <<"main", "A", "C">> /\ last.pre.active = "A"
    /\ stack_file = <<"main", "A", "B", "C">>

\* C24: when the repository step after the write fails, the checkout of
\* push_existing_branch for a name that is no branch or the deletion of
\* untrack with delete, the stack in memory and the stack file are as they
\* were before the operation, and every name in the stack is still the name
\* of a branch when it was before.
C24_FailureKeepsStack ==
    (/\ last.outcome = "raised"
     /\ \/ last.op = "push_existing_branch" /\ last.name \notin DOMAIN last.pre.heads
        \/ last.op = "untrack" /\ last.flag)
    => /\ _stack_cache = last.pre.stack
       /\ stack_file = last.pre.file
       /\ Range(last.pre.stack) \subseteq DOMAIN last.pre.heads
              => Range(stack_file) \subseteq DOMAIN heads

====
